---- MODULE Spec2Model ----
(***************************************************************************)
(* A model of weather.py: the command-line entry point (main), the city    *)
(* loop of process_weather_for_cities, the retrying HTTP fetcher, the      *)
(* geocoder, the weather lookup and the statistics aggregator.             *)
(*                                                                         *)
(* Python's None is the empty tuple <<>>, a present value v is <<v>>.      *)
(* A dict is a function from its keys.  The upstream services are opaque:  *)
(* each GET either raises requests.RequestException or yields one body of  *)
(* a small set of JSON objects.  Temperatures are integers, and the float  *)
(* quotient sum/len is kept exactly, as a reduced fraction.                *)
(***************************************************************************)
EXTENDS Integers, Sequences, FiniteSets, TLC

\* ------------------------------------------------------------- bounds
\* Longest input file, in lines.
MaxLines == 2
\* Temperatures reported upstream range over -1 .. MaxTemp.
MaxTemp == 1
\* FetchSpec calls fetch_data_with_retries with retries in 0 .. MaxRetries.
MaxRetries == 3

\* ---------------------------------------------------------- constants
RETRY_ATTEMPTS == 3

\* ------------------------------------------------------ optional values
None == <<>>
Some(x) == <<x>>
Val(o) == o[1]

\* ------------------------------------------------------------ the inputs
\* Lines of the input file: an empty line, a whitespace-only line, a bare
\* name and a padded name.
Lines == {"", "  ", "Paris", " Tokyo "}

SeqsUpTo(S, n) == UNION {[1..k -> S] : k \in 0..n}

\* file = None: open() raises (FileNotFoundError or any other exception).
Files == {None} \cup {Some(s) : s \in SeqsUpTo(Lines, MaxLines)}

Formats == {"json", "csv"}

Temps == (0 - 1)..MaxTemp
OptTemps == {None} \cup {Some(t) : t \in Temps}

\* The first element of the geocoding response's "results".
GeoResults ==
    [latitude : {None, Some(0), Some(5)},
     longitude : {None, Some(7)},
     name : {None, Some(""), Some("Paris"), Some("stats")}]

\* The "current_weather" object; EmptyObj is the JSON object {}.
EmptyObj ==
    [temperature |-> None, windspeed |-> None, winddirection |-> None,
     weathercode |-> None, time |-> None]
CurrentWeathers ==
    {EmptyObj} \cup
    {[temperature |-> t, windspeed |-> Some(10), winddirection |-> Some(180),
      weathercode |-> Some(3), time |-> Some("T")] : t \in OptTemps}

\* A response body: a JSON object with the keys this program reads.
\* EmptyBody is the JSON object {}.
EmptyBody == [results |-> None, current_weather |-> None]
GeoBodies ==
    {EmptyBody, [results |-> Some(<<>>), current_weather |-> None]} \cup
    {[results |-> Some(<<r>>), current_weather |-> None] : r \in GeoResults}
WeatherBodies ==
    {EmptyBody} \cup
    {[results |-> None, current_weather |-> Some(w)] : w \in CurrentWeathers}
Bodies(u) == IF u = "geo" THEN GeoBodies ELSE WeatherBodies

\* ----------------------------------------------------- pure functions
\* str.strip() on the lines of the model.
Strip(line) ==
    CASE line = "" -> ""
      [] line = "  " -> ""
      [] line = "Paris" -> "Paris"
      [] line = " Tokyo " -> "Tokyo"

\* A reading of the file that keeps the blank lines.
read_city_names_unfiltered(lines) ==
    [i \in 1..Len(lines) |-> Strip(lines[i])]

\* [line.strip() for line in file if line.strip()]
read_city_names_from_file(lines) ==
    LET kept == SelectSeq(lines, LAMBDA l : Strip(l) # "")
    IN  [i \in 1..Len(kept) |-> Strip(kept[i])]

\* Python truthiness of an Optional[dict] response: None and {} are falsy.
Falsy(response) == response = None \/ Val(response) = EmptyBody

\* A retry test that is off by one: attempt <= retries.
AttemptsRemainInclusive(a, r) == a <= r

\* The retry test of the except branch.
AttemptsRemain(a, r) == a < r

\* A geocoder that tests the coordinates by truthiness (not lat or not lon),
\* so that a coordinate of 0 counts as missing.
get_city_coordinates_truthy(city_name, response_data) ==
    IF Falsy(response_data) THEN None
    ELSE LET results == Val(response_data).results IN
         IF results = None \/ Val(results) = <<>> THEN None
         ELSE LET city_info == Val(results)[1]
                  lat == city_info.latitude
                  lon == city_info.longitude
                  city_name_from_api ==
                      IF city_info.name = None \/ city_info.name = Some("")
                      THEN city_name
                      ELSE Val(city_info.name)
              IN  IF lat \in {None, Some(0)} \/ lon \in {None, Some(0)} THEN None
                  ELSE Some(<<Val(lat), Val(lon), city_name_from_api>>)

\* get_city_coordinates after its fetch returned response_data.
get_city_coordinates(city_name, response_data) ==
    IF Falsy(response_data) THEN None
    ELSE LET results == Val(response_data).results IN
         IF results = None \/ Val(results) = <<>> THEN None
         ELSE LET city_info == Val(results)[1]
                  lat == city_info.latitude
                  lon == city_info.longitude
                  city_name_from_api ==
                      IF city_info.name = None \/ city_info.name = Some("")
                      THEN city_name
                      ELSE Val(city_info.name)
              IN  IF lat = None \/ lon = None THEN None
                  ELSE Some(<<Val(lat), Val(lon), city_name_from_api>>)

\* get_current_weather_for_coordinates after its fetch returned weather_data.
get_current_weather_for_coordinates(weather_data) ==
    IF Falsy(weather_data) THEN None
    ELSE LET current_weather == Val(weather_data).current_weather IN
         IF current_weather = None \/ Val(current_weather) = EmptyObj THEN None
         ELSE LET cw == Val(current_weather) IN
              Some([temperature |-> cw.temperature,
                    windspeed |-> cw.windspeed,
                    winddirection |-> cw.winddirection,
                    weathercode |-> cw.weathercode,
                    timestamp |-> cw.time])

\* The entry stored for a city: the reading without its weathercode.
ReducedReading(w) ==
    [temperature |-> w.temperature, windspeed |-> w.windspeed,
     winddirection |-> w.winddirection, timestamp |-> w.timestamp]

RECURSIVE Sum(_)
Sum(s) == IF s = <<>> THEN 0 ELSE Head(s) + Sum(Tail(s))

Range(s) == {s[i] : i \in 1..Len(s)}
Min(s) == CHOOSE x \in Range(s) : \A y \in Range(s) : x <= y
Max(s) == CHOOSE x \in Range(s) : \A y \in Range(s) : x >= y

Abs(n) == IF n < 0 THEN 0 - n ELSE n
RECURSIVE Gcd(_, _)
Gcd(a, b) == IF b = 0 THEN a ELSE Gcd(b, a % b)

\* The quotient n / d, d > 0, as a fraction in lowest terms.
Quotient(n, d) ==
    LET g == Gcd(Abs(n), d)
    IN  [num |-> n \div g, den |-> d \div g]

\* An aggregator that divides with floor division (sum // len).
compute_weather_stats_floor(temps) ==
    IF temps = <<>>
    THEN [min |-> None, max |-> None, average |-> None]
    ELSE [min |-> Some(Min(temps)),
          max |-> Some(Max(temps)),
          average |-> Some(Quotient(Sum(temps) \div Len(temps), 1))]

compute_weather_stats(temps) ==
    IF temps = <<>>
    THEN [min |-> None, max |-> None, average |-> None]
    ELSE [min |-> Some(Min(temps)),
          max |-> Some(Max(temps)),
          average |-> Some(Quotient(Sum(temps), Len(temps)))]

\* d[k] = v on a dict.
DictSet(d, k, v) == (k :> v) @@ d
\* d.setdefault(k, v)
DictSetDefault(d, k, v) == d @@ (k :> v)
EmptyDict == [k \in {} |-> None]

\* -------------------------------------------------------------- state
VARIABLES
    file,            \* the input file: None (unreadable) or Some(lines)
    fmt,             \* args.format
    pc,              \* position of the control flow
    cities,          \* main's cities
    idx,             \* number of cities the loop has finished with
    url,             \* fetch: "geo" or "weather" ("" before any call)
    retries,         \* fetch: the retries argument
    attempt,         \* fetch: the loop variable
    requestsIssued,  \* fetch: GETs issued by the current call
    retrySleeps,     \* fetch: time.sleep(RETRY_DELAY) calls of the current call
    failedAttempts,  \* fetch: GETs of the current call that raised
    fetchResult,     \* fetch: the returned value
    coordinates,     \* process: result of get_city_coordinates
    weather,         \* process: result of get_current_weather_for_coordinates
    weather_results, \* process: the result dict
    temperatures,    \* process: the temperature list
    pauses,          \* input positions followed by time.sleep(0.5)
    outcomes,        \* per input position, what happened to the city
    httpIssued,      \* whether any GET was issued in this run
    outputWritten,   \* whether the output file was written
    summaryPrinted,  \* whether print_weather_summary ran
    raised,          \* whether an exception escaped process_weather_for_cities
    returned,        \* the mapping process_weather_for_cities returned
    exitCode         \* main's return value

vars ==
    <<file, fmt, pc, cities, idx, url, retries, attempt, requestsIssued,
      retrySleeps, failedAttempts, fetchResult, coordinates, weather,
      weather_results, temperatures, pauses, outcomes, httpIssued, outputWritten,
      summaryPrinted, raised, returned, exitCode>>

fetchVars ==
    <<url, retries, attempt, requestsIssued, retrySleeps, failedAttempts,
      fetchResult>>
mainVars == <<file, fmt, cities>>
loopVars == <<idx, coordinates, weather, weather_results, temperatures, pauses, outcomes>>
endVars == <<outputWritten, summaryPrinted, raised, returned, exitCode>>

Idle ==
    /\ cities = <<>>
    /\ idx = 0
    /\ url = ""
    /\ retries = RETRY_ATTEMPTS
    /\ attempt = 1
    /\ requestsIssued = 0
    /\ retrySleeps = 0
    /\ failedAttempts = 0
    /\ fetchResult = None
    /\ coordinates = None
    /\ weather = None
    /\ weather_results = EmptyDict
    /\ temperatures = <<>>
    /\ pauses = {}
    /\ outcomes = <<>>
    /\ httpIssued = FALSE
    /\ outputWritten = FALSE
    /\ summaryPrinted = FALSE
    /\ raised = FALSE
    /\ returned = None
    /\ exitCode = None

Init ==
    /\ file \in Files
    /\ fmt \in Formats
    /\ pc = "main"
    /\ Idle

\* ------------------------------------------------------------- main
\* read_city_names_from_file raises: return 2.
MainReadError ==
    /\ pc = "main"
    /\ file = None
    /\ exitCode' = Some(2)
    /\ pc' = "done"
    /\ UNCHANGED <<mainVars, fetchVars, loopVars, httpIssued, outputWritten,
                   summaryPrinted, raised, returned>>

\* The file was read and holds no city: return 3.
MainNoCities ==
    /\ pc = "main"
    /\ file # None
    /\ read_city_names_from_file(Val(file)) = <<>>
    /\ cities' = <<>>
    /\ exitCode' = Some(3)
    /\ pc' = "done"
    /\ UNCHANGED <<file, fmt, fetchVars, loopVars, httpIssued, outputWritten,
                   summaryPrinted, raised, returned>>

\* main calls process_weather_for_cities, which starts with an empty dict
\* and an empty temperature list.
MainRunPipeline ==
    /\ pc = "main"
    /\ file # None
    /\ read_city_names_from_file(Val(file)) # <<>>
    /\ cities' = read_city_names_from_file(Val(file))
    /\ weather_results' = EmptyDict
    /\ temperatures' = <<>>
    /\ pc' = "loop"
    /\ UNCHANGED <<file, fmt, fetchVars, idx, coordinates, weather, pauses,
                   outcomes, httpIssued, endVars>>

\* ------------------------------------------- fetch_data_with_retries
\* The call: the for loop starts at attempt 1.
CallFetch(u) ==
    /\ url' = u
    /\ retries' = RETRY_ATTEMPTS
    /\ attempt' = 1
    /\ requestsIssued' = 0
    /\ retrySleeps' = 0
    /\ failedAttempts' = 0
    /\ fetchResult' = None
    /\ pc' = "fetch"

\* The frames of the fetcher and of its caller are gone once the loop body
\* is left.
PopFetch ==
    /\ url' = ""
    /\ retries' = RETRY_ATTEMPTS
    /\ attempt' = 1
    /\ requestsIssued' = 0
    /\ retrySleeps' = 0
    /\ failedAttempts' = 0
    /\ fetchResult' = None

\* range(1, retries + 1) is exhausted: the function falls off its end.
FetchRangeExhausted ==
    /\ pc = "fetch"
    /\ attempt > retries
    /\ fetchResult' = None
    /\ pc' = "fetched"
    /\ UNCHANGED <<mainVars, loopVars, endVars, httpIssued, url, retries,
                   attempt, requestsIssued, retrySleeps, failedAttempts>>

\* The GET succeeds: return response.json().
FetchSuccess ==
    /\ pc = "fetch"
    /\ attempt <= retries
    /\ \E body \in Bodies(url) : fetchResult' = Some(body)
    /\ requestsIssued' = requestsIssued + 1
    /\ httpIssued' = TRUE
    /\ pc' = "fetched"
    /\ UNCHANGED <<mainVars, loopVars, endVars, url, retries, attempt,
                   retrySleeps, failedAttempts>>

\* The GET raises RequestException and attempts remain: sleep, next attempt.
FetchFailRetry ==
    /\ pc = "fetch"
    /\ attempt <= retries
    /\ AttemptsRemain(attempt, retries)
    /\ requestsIssued' = requestsIssued + 1
    /\ httpIssued' = TRUE
    /\ failedAttempts' = failedAttempts + 1
    /\ retrySleeps' = retrySleeps + 1
    /\ attempt' = attempt + 1
    /\ UNCHANGED <<mainVars, loopVars, endVars, pc, url, retries, fetchResult>>

\* The GET raises RequestException on the last attempt: return None.
FetchFailGiveUp ==
    /\ pc = "fetch"
    /\ attempt <= retries
    /\ ~AttemptsRemain(attempt, retries)
    /\ requestsIssued' = requestsIssued + 1
    /\ httpIssued' = TRUE
    /\ failedAttempts' = failedAttempts + 1
    /\ fetchResult' = None
    /\ pc' = "fetched"
    /\ UNCHANGED <<mainVars, loopVars, endVars, url, retries, attempt,
                   retrySleeps>>

\* ---------------------------------------- process_weather_for_cities
Outcome(status, name, reading) ==
    [status |-> status, name |-> name, reading |-> reading]

\* for city in cities: get_city_coordinates(city) issues its fetch.
LoopNextCity ==
    /\ pc = "loop"
    /\ idx < Len(cities)
    /\ CallFetch("geo")
    /\ UNCHANGED <<mainVars, loopVars, endVars, httpIssued>>

\* get_city_coordinates returns.
GeocodeReturn ==
    /\ pc = "fetched"
    /\ url = "geo"
    /\ coordinates' = get_city_coordinates(cities[idx + 1], fetchResult)
    /\ pc' = "geo_returned"
    /\ UNCHANGED <<mainVars, fetchVars, endVars, httpIssued, idx, weather,
                   weather_results, temperatures, pauses, outcomes>>

\* if not coordinates: continue
SkipGeocoding ==
    /\ pc = "geo_returned"
    /\ coordinates = None
    /\ outcomes' = Append(outcomes, Outcome("geo_skip", "", None))
    /\ idx' = idx + 1
    /\ PopFetch
    /\ pc' = "loop"
    /\ UNCHANGED <<mainVars, endVars, httpIssued, coordinates,
                   weather, weather_results, temperatures, pauses>>

\* get_current_weather_for_coordinates(lat, lon) issues its fetch.
CallWeather ==
    /\ pc = "geo_returned"
    /\ coordinates # None
    /\ CallFetch("weather")
    /\ UNCHANGED <<mainVars, loopVars, endVars, httpIssued>>

\* get_current_weather_for_coordinates returns.
WeatherReturn ==
    /\ pc = "fetched"
    /\ url = "weather"
    /\ weather' = get_current_weather_for_coordinates(fetchResult)
    /\ pc' = "weather_returned"
    /\ UNCHANGED <<mainVars, fetchVars, endVars, httpIssued, idx, coordinates,
                   weather_results, temperatures, pauses, outcomes>>

\* if not weather: continue
SkipWeather ==
    /\ pc = "weather_returned"
    /\ weather = None
    /\ outcomes' = Append(outcomes, Outcome("weather_skip", "", None))
    /\ idx' = idx + 1
    /\ coordinates' = None
    /\ PopFetch
    /\ pc' = "loop"
    /\ UNCHANGED <<mainVars, endVars, httpIssued, weather,
                   weather_results, temperatures, pauses>>

\* The rest of the loop body: store the entry under the resolved name,
\* append the temperature when present, sleep half a second.
RecordWeather ==
    /\ pc = "weather_returned"
    /\ weather # None
    /\ LET city_name == Val(coordinates)[3]
           w == Val(weather)
       IN  /\ weather_results' = DictSet(weather_results, city_name, ReducedReading(w))
           /\ temperatures' =
                  IF w.temperature # None
                  THEN Append(temperatures, Val(w.temperature))
                  ELSE temperatures
           /\ outcomes' = Append(outcomes, Outcome("ok", city_name, Some(ReducedReading(w))))
    /\ pauses' = pauses \cup {idx + 1}
    /\ idx' = idx + 1
    /\ coordinates' = None
    /\ weather' = None
    /\ PopFetch
    /\ pc' = "loop"
    /\ UNCHANGED <<mainVars, endVars, httpIssued>>

\* An aggregation step that keeps an entry already stored under "stats".
AggregateKeepExisting ==
    /\ pc = "loop"
    /\ idx = Len(cities)
    /\ weather_results' =
           DictSetDefault(weather_results, "stats", compute_weather_stats(temperatures))
    /\ pc' = "save"
    /\ UNCHANGED <<mainVars, fetchVars, endVars, httpIssued, idx, coordinates,
                   weather, temperatures, pauses, outcomes>>

\* After the loop: stats = compute_weather_stats(temperatures);
\* weather_results["stats"] = stats.
Aggregate ==
    /\ pc = "loop"
    /\ idx = Len(cities)
    /\ weather_results' =
           DictSet(weather_results, "stats", compute_weather_stats(temperatures))
    /\ pc' = "save"
    /\ UNCHANGED <<mainVars, fetchVars, endVars, httpIssued, idx, coordinates,
                   weather, temperatures, pauses, outcomes>>

\* output_format == "json": save_to_json swallows a write error, the summary
\* is printed, the mapping returned, and main returns 0.
SaveJson ==
    /\ pc = "save"
    /\ fmt = "json"
    /\ outputWritten' \in BOOLEAN
    /\ summaryPrinted' = TRUE
    /\ returned' = Some(weather_results)
    /\ exitCode' = Some(0)
    /\ pc' = "done"
    /\ UNCHANGED <<mainVars, fetchVars, loopVars, httpIssued, raised>>

\* Otherwise save_to_csv is called; the module defines no such name, so a
\* NameError escapes to main, which returns 1.
SaveCsv ==
    /\ pc = "save"
    /\ fmt # "json"
    /\ raised' = TRUE
    /\ exitCode' = Some(1)
    /\ pc' = "done"
    /\ UNCHANGED <<mainVars, fetchVars, loopVars, httpIssued, outputWritten,
                   summaryPrinted, returned>>

Next ==
    \/ MainReadError
    \/ MainNoCities
    \/ MainRunPipeline
    \/ LoopNextCity
    \/ FetchSuccess
    \/ FetchFailRetry
    \/ FetchFailGiveUp
    \/ GeocodeReturn
    \/ SkipGeocoding
    \/ CallWeather
    \/ WeatherReturn
    \/ SkipWeather
    \/ RecordWeather
    \/ Aggregate
    \/ SaveJson
    \/ SaveCsv

Spec == Init /\ [][Next]_vars

\* ------------------------------------------------ the fetcher alone
\* fetch_data_with_retries called on its own, with any retries argument.
FetchInit ==
    /\ file = None
    /\ fmt = "json"
    /\ pc = "fetch"
    /\ cities = <<>>
    /\ idx = 0
    /\ url \in {"geo", "weather"}
    /\ retries \in 0..MaxRetries
    /\ attempt = 1
    /\ requestsIssued = 0
    /\ retrySleeps = 0
    /\ failedAttempts = 0
    /\ fetchResult = None
    /\ coordinates = None
    /\ weather = None
    /\ weather_results = EmptyDict
    /\ temperatures = <<>>
    /\ pauses = {}
    /\ outcomes = <<>>
    /\ httpIssued = FALSE
    /\ outputWritten = FALSE
    /\ summaryPrinted = FALSE
    /\ raised = FALSE
    /\ returned = None
    /\ exitCode = None

FetchNext ==
    \/ FetchRangeExhausted
    \/ FetchSuccess
    \/ FetchFailRetry
    \/ FetchFailGiveUp

FetchSpec == FetchInit /\ [][FetchNext]_vars
\* ------------------------------------------------------------ claims
Finished == pc = "done" /\ returned # None
Mapping == Val(returned)
OkPositions == {i \in 1..Len(outcomes) : outcomes[i].status = "ok"}
Entries(m) == DOMAIN m \ {"stats"}
ReadingKeys == {"temperature", "windspeed", "winddirection", "timestamp"}
SummaryKeys == {"min", "max", "average"}

\* The temperatures of the cities that succeeded at both stages, in order.
RECURSIVE OkTemps(_)
OkTemps(outs) ==
    IF outs = <<>> THEN <<>>
    ELSE LET o == Head(outs) IN
         IF o.status = "ok" /\ Val(o.reading).temperature # None
         THEN <<Val(Val(o.reading).temperature)>> \o OkTemps(Tail(outs))
         ELSE OkTemps(Tail(outs))

\* What the claims say of a summary st over the temperatures t.
IsSummaryOf(st, t) ==
    IF t = <<>>
    THEN st.min = None /\ st.max = None /\ st.average = None
    ELSE /\ st.min # None /\ st.max # None /\ st.average # None
         /\ \A i \in 1..Len(t) : Val(st.max) >= t[i] /\ Val(st.min) <= t[i]
         /\ \E i \in 1..Len(t) : Val(st.max) = t[i]
         /\ \E i \in 1..Len(t) : Val(st.min) = t[i]
         /\ Val(st.average).den > 0
         /\ Val(st.average).num * Len(t) = Sum(t) * Val(st.average).den
         /\ Len(t) = 1 => Val(st.average) = [num |-> t[1], den |-> 1]

\* C1: in the mapping process_weather_for_cities returns, a city whose
\* geocoding or weather lookup returned absence has no entry and no
\* temperature, the loop went on through every city, every city that
\* succeeded at both stages has its reading in the mapping, and the stats
\* are computed from the successful cities' temperatures; main returns 0.
C1_FailuresSkippedOthersKept ==
    Finished =>
        /\ Len(outcomes) = Len(cities)
        /\ exitCode = Some(0)
        /\ Entries(Mapping) \subseteq {outcomes[i].name : i \in OkPositions}
        /\ temperatures = OkTemps(outcomes)
        /\ \A i \in OkPositions :
               \E k \in DOMAIN Mapping :
                   /\ DOMAIN Mapping[k] = ReadingKeys
                   /\ Mapping[k] = Val(outcomes[i].reading)
        /\ "stats" \in DOMAIN Mapping
        /\ DOMAIN Mapping["stats"] = SummaryKeys
        /\ IsSummaryOf(Mapping["stats"], OkTemps(outcomes))

\* C2: the returned mapping has the "stats" key and, besides it, as many
\* entries as there are input positions for which both the Geocoder and the
\* Weather Lookup succeeded.
C2_OneEntryPerSuccessfulPosition ==
    Finished =>
        /\ "stats" \in DOMAIN Mapping
        /\ Cardinality(Entries(Mapping)) = Cardinality(OkPositions)

\* C3: main returns 2 when the file cannot be read, 3 when it is read and
\* holds no non-blank line, 1 when an exception escapes the pipeline and 0
\* otherwise; with 2 and 3 the pipeline never started: no GET was issued, no
\* output file written.
NoNonBlankLine == \A i \in 1..Len(Val(file)) : Strip(Val(file)[i]) = ""
C3_ExitCodes ==
    /\ pc # "done" => exitCode = None
    /\ pc = "done" =>
        /\ exitCode \in {Some(0), Some(1), Some(2), Some(3)}
        /\ exitCode = Some(2) <=> file = None
        /\ exitCode = Some(3) <=> (file # None /\ NoNonBlankLine)
        /\ exitCode = Some(1) <=> raised
        /\ exitCode = Some(0) <=>
               (file # None /\ ~NoNonBlankLine /\ ~raised /\ returned # None)
        /\ exitCode \in {Some(2), Some(3)} =>
               /\ ~httpIssued
               /\ ~outputWritten
               /\ ~summaryPrinted
               /\ returned = None
               /\ outcomes = <<>>
C3_Witness ==
    /\ pc = "done"
    /\ exitCode = Some(3)
    /\ file # None
    /\ Len(Val(file)) = 2

\* C4: fetch_data_with_retries issues at most `retries` GETs and always comes
\* to its return; it returns the body of the first attempt that succeeds and
\* issues nothing after it; it sleeps after a failed attempt only when
\* attempts remain; it returns None exactly when all `retries` attempts failed.
C4_FetchBounded ==
    /\ requestsIssued <= retries
    /\ pc = "fetched" \/ ENABLED FetchNext
    /\ pc = "fetch" =>
        /\ attempt <= retries + 1
        /\ fetchResult = None
        /\ failedAttempts = attempt - 1
        /\ requestsIssued = failedAttempts
        /\ retrySleeps = failedAttempts
    /\ pc = "fetched" =>
        /\ fetchResult = None <=> failedAttempts = retries
        /\ fetchResult # None =>
               /\ requestsIssued = failedAttempts + 1
               /\ retrySleeps = failedAttempts
               /\ Val(fetchResult) \in Bodies(url)
        /\ fetchResult = None =>
               /\ requestsIssued = retries
               /\ retrySleeps = (IF retries = 0 THEN 0 ELSE retries - 1)
C4_Witness ==
    /\ pc = "fetched"
    /\ fetchResult # None
    /\ failedAttempts = 2
    /\ retries = 3

\* C5: in csv mode, once the city loop has completed, the output file is
\* written, the summary printed, the mapping returned, and main returns 0.
C5_CsvWritesAndExitsZero ==
    (pc = "done" /\ fmt = "csv" /\ cities # <<>>) =>
        /\ outputWritten
        /\ summaryPrinted
        /\ returned # None
        /\ exitCode = Some(0)

\* C6: the half-second pause is taken after every city the loop has finished
\* with, whatever the city's outcome.
C6_PauseAfterEveryCity ==
    \A i \in 1..Len(outcomes) : i \in pauses

\* C7 as stated: get_city_coordinates returns None exactly when the Fetcher
\* returned None, the results are empty or missing, or the first result lacks
\* both latitude and longitude; otherwise (latitude, longitude, name), the
\* name falling back to the input when the response omits it.
GeoResponseHasResult ==
    /\ fetchResult # None
    /\ Val(fetchResult).results # None
    /\ Val(Val(fetchResult).results) # <<>>
FirstResult == Val(Val(fetchResult).results)[1]
ResolvedNameOmitted(r) == r.name = None
ResolvedNameOmittedOrEmpty(r) == r.name = None \/ r.name = Some("")
C7_AbsentOnlyIfBothMissing ==
    pc = "geo_returned" =>
        IF ~GeoResponseHasResult
           \/ (FirstResult.latitude = None /\ FirstResult.longitude = None)
        THEN coordinates = None
        ELSE /\ coordinates # None
             /\ FirstResult.latitude # None => Val(coordinates)[1] = Val(FirstResult.latitude)
             /\ FirstResult.longitude # None => Val(coordinates)[2] = Val(FirstResult.longitude)
             /\ Val(coordinates)[3] =
                    IF ResolvedNameOmitted(FirstResult)
                    THEN cities[idx + 1]
                    ELSE Val(FirstResult.name)

\* C7 as amended: get_city_coordinates returns None exactly when the Fetcher
\* returned None, the results are empty or missing, or the first result lacks
\* latitude or lacks longitude; otherwise (a coordinate equal to 0 included)
\* it returns (latitude, longitude, name), the name being the response's name
\* or, when that is omitted or empty, the input city name.
C7_AbsentIfEitherMissing ==
    pc = "geo_returned" =>
        IF ~GeoResponseHasResult
           \/ FirstResult.latitude = None
           \/ FirstResult.longitude = None
        THEN coordinates = None
        ELSE /\ coordinates # None
             /\ Val(coordinates)[1] = Val(FirstResult.latitude)
             /\ Val(coordinates)[2] = Val(FirstResult.longitude)
             /\ Val(coordinates)[3] =
                    IF ResolvedNameOmittedOrEmpty(FirstResult)
                    THEN cities[idx + 1]
                    ELSE Val(FirstResult.name)
C7_Witness ==
    /\ pc = "geo_returned"
    /\ GeoResponseHasResult
    /\ FirstResult.latitude = None
    /\ FirstResult.longitude # None
    /\ coordinates = None

\* C8: compute_weather_stats gives min, max and average absent for the empty
\* sequence; for a non-empty one max >= every element >= min, both are
\* elements, and average is sum divided by count (a single t gives t).
C8_StatsOfTemperatures ==
    pc = "save" =>
        /\ DOMAIN weather_results["stats"] = SummaryKeys
        /\ IsSummaryOf(weather_results["stats"], temperatures)
C8_Witness ==
    /\ pc = "save"
    /\ Len(temperatures) = 2
    /\ temperatures[1] # temperatures[2]

\* C9 as stated: when a city resolved to the name "stats" and its weather
\* lookup succeeded, the value under "stats" in the returned mapping is that
\* city's reading, not the summary.
StatsPositions == {i \in OkPositions : outcomes[i].name = "stats"}
C9_CityOverwritesStats ==
    (Finished /\ StatsPositions # {}) =>
        /\ DOMAIN Mapping["stats"] = ReadingKeys
        /\ \E i \in StatsPositions : Mapping["stats"] = Val(outcomes[i].reading)

\* C9 as amended: when a city resolved to the name "stats" and its weather
\* lookup succeeded, the summary, stored after the loop, overwrites that
\* city's reading: the value under "stats" in the returned mapping is the
\* {min, max, average} summary of all collected temperatures, that city's
\* included, and the city has no entry of its own.
C9_StatsOverwritesCity ==
    (Finished /\ StatsPositions # {}) =>
        /\ DOMAIN Mapping["stats"] = SummaryKeys
        /\ IsSummaryOf(Mapping["stats"], OkTemps(outcomes))
        /\ \A k \in Entries(Mapping) :
               \E i \in OkPositions \ StatsPositions : outcomes[i].name = k
C9_Witness ==
    /\ Finished
    /\ StatsPositions # {}
    /\ \E i \in StatsPositions : Val(outcomes[i].reading).temperature # None

\* C10: in a returned mapping the summary is consistent with the entries
\* beside it: as many temperatures were aggregated as there are non-stats
\* entries with a temperature, and stats.min and stats.max are each the
\* temperature of some non-stats entry.
C10_SummaryMatchesEntries ==
    Finished =>
        LET m == Mapping
            withTemp == {k \in Entries(m) : m[k].temperature # None}
        IN  /\ Len(temperatures) = Cardinality(withTemp)
            /\ temperatures # <<>> =>
                   /\ \E k \in withTemp : m[k].temperature = m["stats"].min
                   /\ \E k \in withTemp : m[k].temperature = m["stats"].max
====
